---- MODULE Spec2Model ----
(***************************************************************************)
(* Forward computation of the three treatment-aware Q-networks of           *)
(* algorithms_step/model.py: SimpleQNetwork, CEQNetwork_1, CEQNetwork_2.    *)
(*                                                                          *)
(* Tensors are followed for one row of the batch dimension: every tensor    *)
(* operation the code uses (nn.Linear, ReLU, cat/pad along dim -1, scatter  *)
(* along the class dimension, topk along the class dimension, where with a  *)
(* (N,1) condition) acts on each row independently.  A row is a sequence of *)
(* integers; weights are small integers, so arithmetic is exact.            *)
(***************************************************************************)
EXTENDS Integers, Sequences, FiniteSets, TLC

(***************************************************************************)
(* Bounds of the model.                                                     *)
(***************************************************************************)
\* longest state_sequence a caller supplies
MaxLen == 2
\* largest configured window length (step)
MaxStep == 2
\* values of a raw state component, and the family of weight initialisations
StateValues == {0, 1}
Seeds == {0, 1}

\* configured widths (the constructor's parameters, reduced from the defaults)
StateSizes == {1}
ActionSizes == {2}
Fc1Sizes == {2}
Fc2Sizes == {2}
NumTreatments == {2, 3}
Variants == {"SimpleQNetwork", "CEQNetwork_1", "CEQNetwork_2"}

\* how torch.topk resolves equal top scores is not specified by the library:
\* it is fixed by the build (device, kernel), not by this code
TieRules == {"first", "last"}

VARIABLES
    cfg,        \* constructor arguments and class of the network
    params,     \* the nn.Linear weights and biases
    topkTie,    \* the build's resolution of ties in topk
    training,   \* nn.Module.training
    input,      \* the batch dict as the caller passed it to forward
    data,       \* the same dict object after forward
    outcome,    \* "none" (no call yet), "ok", "KeyError"
    out,        \* the returned record
    loc         \* locals of _forward when it returned or raised, and its mode

vars == <<cfg, params, topkTie, training, input, data, outcome, out, loc>>

(***************************************************************************)
(* Tensor helpers (one batch row).                                          *)
(***************************************************************************)
RECURSIVE SumTo(_, _)
SumTo(f, n) == IF n = 0 THEN 0 ELSE f[n] + SumTo(f, n - 1)

Zeros(n) == [i \in 1..n |-> 0]

\* the slice taken from the wrong end: s[:n]
FirstN(s, n) ==
    IF n = 0 \/ n >= Len(s) THEN s
    ELSE SubSeq(s, 1, n)

\* python list slice s[-n:]
LastN(s, n) ==
    IF n = 0 \/ n >= Len(s) THEN s
    ELSE SubSeq(s, Len(s) - n + 1, Len(s))

\* python s[-1]
Last(s) == s[Len(s)]

\* torch.cat(list, dim=-1)
RECURSIVE Cat(_)
Cat(vs) == IF vs = <<>> THEN <<>> ELSE Head(vs) \o Cat(Tail(vs))

\* F.pad(x, pad=(n, 0)): n zeros on the left; a negative n crops from the left
PadLeft(x, n) ==
    IF n >= 0 THEN Zeros(n) \o x
    ELSE SubSeq(x, 1 - n, Len(x))

\* nn.ReLU
ReLU(x) == [i \in 1..Len(x) |-> IF x[i] > 0 THEN x[i] ELSE 0]

\* nn.Linear: y = x W^T + b
Linear(l, x) ==
    [j \in 1..Len(l.b) |->
        l.b[j] + SumTo([i \in 1..Len(x) |-> l.W[j][i] * x[i]], Len(x))]

\* nn.Sequential(Linear, ReLU, Linear)
Mlp(m, x) == Linear(m.l2, ReLU(Linear(m.l1, x)))

\* the scatter with the class taken as a 1-based position
OneHotOneBased(width, idx) == [i \in 1..width |-> IF i = idx THEN 1 ELSE 0]

\* torch.zeros(width).scatter(dim, index, 1) for one index (0-based class)
OneHot(width, idx) == [i \in 1..width |-> IF i = idx + 1 THEN 1 ELSE 0]

MaxOf(x) == CHOOSE v \in {x[i] : i \in 1..Len(x)} : \A i \in 1..Len(x) : x[i] <= v

\* the 0-based classes holding the top score
ArgMaxSet(x) == {i - 1 : i \in {k \in 1..Len(x) : x[k] = MaxOf(x)}}

MinOfSet(S) == CHOOSE v \in S : \A w \in S : v <= w
MaxOfSet(S) == CHOOSE v \in S : \A w \in S : w <= v

\* topk with largest=False: the class of the lowest score
TopK1Smallest(x, tie) ==
    CHOOSE c \in 0..(Len(x) - 1) : \A k \in 1..Len(x) : x[c + 1] <= x[k]

\* t.topk(1, dim)[1] over the class dimension: the class of the top score; the
\* library leaves the choice among equal top scores to the build
TopK1(x, tie) ==
    IF tie = "first" THEN MinOfSet(ArgMaxSet(x)) ELSE MaxOfSet(ArgMaxSet(x))

(***************************************************************************)
(* Construction: nn.Linear layers with initial weights.  The initial        *)
(* weights of layer id are drawn from a family indexed by seed, with        *)
(* entries in -2..2.                                                        *)
(***************************************************************************)
InitWeight(seed, id, j, i) ==
    (((seed + 1) * (4 * id + 3 * j) + id * j + 2 * i * j + 2 * seed * i) % 5) - 2

\* nn.Linear(in_features, out_features)
NewLinear(seed, id, inF, outF) ==
    [in |-> inF,
     W  |-> [j \in 1..outF |-> [i \in 1..inF |-> InitWeight(seed, id, j, i)]],
     b  |-> [j \in 1..outF |-> InitWeight(seed, id, j, 0)]]

\* nn.Sequential(nn.Linear(a, h), nn.ReLU(), nn.Linear(h, o))
NewMlp(seed, id, a, h, o) ==
    [l1 |-> NewLinear(seed, id, a, h), l2 |-> NewLinear(seed, id + 1, h, o)]

\* AbstractDQN.__init__: the encoder
NewEncoder(c, seed) == NewMlp(seed, 1, c.state_size, c.fc1_units, c.fc2_units)

\* the logits_t member of each class
NewLogitsT(c, seed) ==
    NewMlp(seed, 3, c.fc2_units, c.fc2_units \div 2, c.num_treatment)

\* SimpleQNetwork.__init__
SimpleQNetwork_init(c, seed) ==
    [encoder  |-> NewEncoder(c, seed),
     logits_t |-> NewLogitsT(c, seed),
     fc       |-> NewMlp(seed, 5, c.fc2_units * c.step,
                         (c.fc2_units * c.step) \div 2, c.action_size)]

\* CEQNetwork_1.__init__
CEQNetwork_1_init(c, seed) ==
    [encoder  |-> NewEncoder(c, seed),
     logits_t |-> NewLogitsT(c, seed),
     fc       |-> NewMlp(seed, 5, (c.fc2_units + c.num_treatment) * c.step,
                         ((c.fc2_units + c.num_treatment) * c.step) \div 2,
                         c.action_size)]

\* CEQNetwork_2.__init__
CEQNetwork_2_init(c, seed) ==
    [encoder  |-> NewEncoder(c, seed),
     logits_t |-> NewLogitsT(c, seed),
     fc_t0    |-> NewMlp(seed, 5, (c.fc2_units + c.num_treatment) * c.step,
                         ((c.fc2_units + c.num_treatment) * c.step) \div 2,
                         c.action_size),
     fc_t1    |-> NewMlp(seed, 7, (c.fc2_units + c.num_treatment) * c.step,
                         ((c.fc2_units + c.num_treatment) * c.step) \div 2,
                         c.action_size)]

Construct(c, seed) ==
    CASE c.variant = "SimpleQNetwork" -> SimpleQNetwork_init(c, seed)
      [] c.variant = "CEQNetwork_1"   -> CEQNetwork_1_init(c, seed)
      [] c.variant = "CEQNetwork_2"   -> CEQNetwork_2_init(c, seed)

Configs ==
    [variant : Variants, state_size : StateSizes, action_size : ActionSizes,
     fc1_units : Fc1Sizes, fc2_units : Fc2Sizes, step : 1..MaxStep,
     num_treatment : NumTreatments]

(***************************************************************************)
(* The batch dict.  A dict is a function on the set of its keys.            *)
(***************************************************************************)
HasKey(d, k) == k \in DOMAIN d

\* d[k] = v
SetItem(d, k, v) == [f \in DOMAIN d \cup {k} |-> IF f = k THEN v ELSE d[f]]

\* the encoder's Sequential(Linear, ReLU, Linear, ReLU)
Encode(p, s) == ReLU(Mlp(p.encoder, s))

\* a Sequential head fed a row of the wrong width raises
Fits(m, x) == Len(x) = m.l1.in

NoOut == [t |-> <<>>, y |-> <<>>, z |-> <<>>]

\* the result of a call that raised
Raised(d, what, l) == [data |-> d, outcome |-> what, out |-> NoOut, loc |-> l]

\* the result of a call that returned
Returned(d, o, l) == [data |-> d, outcome |-> "ok", out |-> o, loc |-> l]

NoLoc ==
    [train |-> TRUE, applied |-> {}, window |-> <<>>, logits |-> <<>>, onehot_t |-> <<>>,
     slots |-> 0, t_ind |-> -1, y_t0 |-> <<>>, y_t1 |-> <<>>, y_fc |-> <<>>]

(***************************************************************************)
(* Steps shared by the three _forward methods.                              *)
(***************************************************************************)
\* z = data['z'][-self.step:]
WindowLatents(c, d) == LastN(d["z"], c.step)

\* t = [self.logits_t(_z) for _z in z]
TreatmentLogits(p, zs) == [k \in 1..Len(zs) |-> Mlp(p.logits_t, zs[k])]

\* the window without its padding
WindowBlockUnpadded(c, zs) == Cat(zs)

\* z = torch.cat(z, dim=-1); z = F.pad(z, pad=(fc2_units * step - z.shape[-1], 0))
WindowBlock(c, zs) == PadLeft(Cat(zs), c.fc2_units * c.step - Len(Cat(zs)))

\* torch.zeros(t_stack.shape).scatter(2, index, 1) is defined when the index has
\* no more rows than t_stack and every class is in range
ScatterOk(rows, width, idx) ==
    /\ Len(idx) <= rows
    /\ \A k \in 1..Len(idx) : idx[k] \in 0..(width - 1)

\* the scatter with class 0 read as "no label"
ScatterViewSkipZero(rows, width, idx) ==
    Cat([k \in 1..rows |->
            IF k <= Len(idx) /\ idx[k] > 0 THEN OneHot(width, idx[k])
            ELSE Zeros(width)])

\* ... and sets one entry per index row; .view(N, -1) flattens the rows
ScatterView(rows, width, idx) ==
    Cat([k \in 1..rows |->
            IF k <= Len(idx) THEN OneHot(width, idx[k]) ELSE Zeros(width)])

\* onehot_t = F.pad(onehot_t, pad=(num_treatment * step - onehot_t.shape[-1], 0))
TreatmentBlock(c, flat) == PadLeft(flat, c.num_treatment * c.step - Len(flat))

\* t_stack.topk(1, 2, True, True)[1]
PredictedClasses(t, tie) == [k \in 1..Len(t) |-> TopK1(t[k], tie)]

(***************************************************************************)
(* SimpleQNetwork._forward                                                  *)
(***************************************************************************)
SimpleQNetwork_forward(c, p, tie, train, d) ==
    LET zs == WindowLatents(c, d)
        t  == TreatmentLogits(p, zs)
        z  == WindowBlock(c, zs)
        l0 == [NoLoc EXCEPT !.window = z, !.logits = t, !.slots = Len(zs)]
    IN  IF ~Fits(p.fc, z) THEN Raised(d, "RuntimeError", l0)
        ELSE
        LET y  == Mlp(p.fc, z)
            l1 == [l0 EXCEPT !.applied = {"fc"}, !.y_fc = y]
        IN  IF ~HasKey(d, "prev_action") THEN Raised(d, "KeyError", l1)
            ELSE
            LET d1 == SetItem(d, "onehot_prev_action",
                              OneHot(Len(y), d["prev_action"]))
            IN  IF train
                THEN IF ~HasKey(d1, "t") THEN Raised(d1, "KeyError", l1)
                     ELSE LET ti == Last(d1["t"])
                              y2 == IF ti = 1 THEN d1["onehot_prev_action"] ELSE y
                          IN  Returned(d1, [t |-> Last(t), y |-> y2, z |-> z],
                                       [l1 EXCEPT !.t_ind = ti])
                ELSE LET ti == TopK1(Last(t), tie)
                         y2 == IF ti = 1 THEN d1["onehot_prev_action"] ELSE y
                     IN  Returned(d1, [t |-> Last(t), y |-> y2, z |-> z],
                                  [l1 EXCEPT !.t_ind = ti])

(***************************************************************************)
(* The treatment block of CEQNetwork_1 and CEQNetwork_2: the class index    *)
(* rows scattered into onehot_t in the active mode.                         *)
(***************************************************************************)
\* the labels used whenever the batch carries them, whatever the mode
TreatmentIndexLabelsIfPresent(c, tie, train, d, t) ==
    IF train \/ HasKey(d, "t") THEN LastN(d["t"], c.step)
    ELSE PredictedClasses(t, tie)

\* training: _t = torch.stack(data['t'][-self.step:], dim=1)
\* evaluation: t_stack.topk(1, 2, True, True)[1]
TreatmentIndex(c, tie, train, d, t) ==
    IF train THEN LastN(d["t"], c.step) ELSE PredictedClasses(t, tie)

(***************************************************************************)
(* CEQNetwork_1._forward                                                    *)
(***************************************************************************)
CEQNetwork_1_forward(c, p, tie, train, d) ==
    LET zs == WindowLatents(c, d)
        t  == TreatmentLogits(p, zs)
        z  == WindowBlock(c, zs)
        l0 == [NoLoc EXCEPT !.window = z, !.logits = t, !.slots = Len(zs)]
    IN  IF train /\ ~HasKey(d, "t") THEN Raised(d, "KeyError", l0)
        ELSE
        LET idx == TreatmentIndex(c, tie, train, d, t)
        IN  IF ~ScatterOk(Len(t), c.num_treatment, idx)
            THEN Raised(d, "RuntimeError", l0)
            ELSE
            LET onehot_t == TreatmentBlock(c,
                                ScatterView(Len(t), c.num_treatment, idx))
                l1 == [l0 EXCEPT !.onehot_t = onehot_t]
                x  == z \o onehot_t
            IN  IF ~Fits(p.fc, x) THEN Raised(d, "RuntimeError", l1)
                ELSE LET y == Mlp(p.fc, x)
                     IN  Returned(d, [t |-> Last(t), y |-> y, z |-> z],
                                  [l1 EXCEPT !.applied = {"fc"}, !.y_fc = y])

(***************************************************************************)
(* CEQNetwork_2._forward                                                    *)
(***************************************************************************)
\* the two heads exchanged
CombineSwapped(tb, y_t1, y_t0) ==
    [a \in 1..Len(y_t0) |-> tb * y_t0[a] + (1 - tb) * y_t1[a]]

\* head0 left unweighted
CombineNoComplement(tb, y_t1, y_t0) ==
    [a \in 1..Len(y_t0) |-> tb * y_t1[a] + y_t0[a]]

\* y = t_bernoulli * y_t1 + (1 - t_bernoulli) * y_t0
Combine(tb, y_t1, y_t0) ==
    [a \in 1..Len(y_t0) |-> tb * y_t1[a] + (1 - tb) * y_t0[a]]

CEQNetwork_2_forward(c, p, tie, train, d) ==
    LET zs == WindowLatents(c, d)
        t  == TreatmentLogits(p, zs)
        z  == WindowBlock(c, zs)
        l0 == [NoLoc EXCEPT !.window = z, !.logits = t, !.slots = Len(zs)]
    IN  IF train /\ ~HasKey(d, "t") THEN Raised(d, "KeyError", l0)
        ELSE
        LET idx == TreatmentIndex(c, tie, train, d, t)
        IN  IF ~ScatterOk(Len(t), c.num_treatment, idx)
            THEN Raised(d, "RuntimeError", l0)
            ELSE
            LET onehot_t == TreatmentBlock(c,
                                ScatterView(Len(t), c.num_treatment, idx))
                \* training: data['t'][-1]; evaluation: t[-1].topk(1, 1)[1].float()
                tb == IF train THEN Last(d["t"]) ELSE TopK1(Last(t), tie)
                l1 == [l0 EXCEPT !.onehot_t = onehot_t, !.t_ind = tb]
                x  == z \o onehot_t
            IN  IF ~(Fits(p.fc_t0, x) /\ Fits(p.fc_t1, x))
                THEN Raised(d, "RuntimeError", l1)
                ELSE LET y_t0 == Mlp(p.fc_t0, x)
                         y_t1 == Mlp(p.fc_t1, x)
                         y    == Combine(tb, y_t1, y_t0)
                     IN  Returned(d, [t |-> Last(t), y |-> y, z |-> z],
                                  [l1 EXCEPT !.applied = {"fc_t0", "fc_t1"},
                                             !.y_t0 = y_t0, !.y_t1 = y_t1])

(***************************************************************************)
(* AbstractDQN.forward                                                      *)
(***************************************************************************)
\* data['z'] = [self.encoder(s) for s in data['state']]
EncodeAll(p, d) ==
    SetItem(d, "z", [k \in 1..Len(d["state"]) |-> Encode(p, d["state"][k])])

\* out = self._forward(data), dispatched on the class
AbstractDQN_forward(c, p, tie, train, d) ==
    LET d1 == EncodeAll(p, d)
    IN  CASE c.variant = "SimpleQNetwork" -> SimpleQNetwork_forward(c, p, tie, train, d1)
          [] c.variant = "CEQNetwork_1"   -> CEQNetwork_1_forward(c, p, tie, train, d1)
          [] c.variant = "CEQNetwork_2"   -> CEQNetwork_2_forward(c, p, tie, train, d1)

(***************************************************************************)
(* The batches a caller supplies: state_sequence of length 1..MaxLen,       *)
(* prev_action, and treatment labels aligned 1:1 with the states (or no     *)
(* 't' key at all).                                                         *)
(***************************************************************************)
StateVectors(c) == [1..c.state_size -> StateValues]

Labels(c) == 0..(c.num_treatment - 1)

\* the keys every caller fills in: prev_action is supplied to SimpleQNetwork,
\* the one class that reads it
Observations(c, n) ==
    IF c.variant = "SimpleQNetwork"
    THEN {[state |-> ss, prev_action |-> a] :
            ss \in [1..n -> StateVectors(c)], a \in 0..(c.action_size - 1)}
    ELSE {[state |-> ss] : ss \in [1..n -> StateVectors(c)]}

Batches(c) ==
    UNION { Observations(c, n)
            \cup {SetItem(b, "t", ts) :
                    b \in Observations(c, n), ts \in [1..n -> Labels(c)]}
            : n \in 1..MaxLen }

(***************************************************************************)
(* State machine.  The caller holds one batch dict at a time.               *)
(***************************************************************************)
NoDict == [state |-> <<>>]

Init ==
    /\ cfg \in Configs
    /\ \E seed \in Seeds : params = Construct(cfg, seed)
    /\ topkTie \in TieRules
    /\ training = TRUE
    /\ input = NoDict
    /\ data = NoDict
    /\ outcome = "none"
    /\ out = NoOut
    /\ loc = NoLoc

\* the effect of net.forward(d) on the caller's dict and what it returns
Call(d) ==
    LET r == AbstractDQN_forward(cfg, params, topkTie, training, d)
    IN  /\ input' = d
        /\ data' = r.data
        /\ outcome' = r.outcome
        /\ out' = r.out
        /\ loc' = [r.loc EXCEPT !.train = training]

\* net(batch) on a dict the caller has just built
Forward ==
    /\ outcome = "none"
    /\ \E b \in Batches(cfg) : Call(b)
    /\ UNCHANGED <<cfg, params, topkTie, training>>

\* net(batch) again on the dict object of the previous call
ForwardAgain ==
    /\ outcome # "none"
    /\ Call(data)
    /\ UNCHANGED <<cfg, params, topkTie, training>>

\* the caller drops the dict and the result
Discard ==
    /\ outcome # "none"
    /\ input' = NoDict
    /\ data' = NoDict
    /\ outcome' = "none"
    /\ out' = NoOut
    /\ loc' = NoLoc
    /\ UNCHANGED <<cfg, params, topkTie, training>>

\* net.train()
Train ==
    /\ training' = TRUE
    /\ UNCHANGED <<cfg, params, topkTie, input, data, outcome, out, loc>>

\* net.eval()
Eval ==
    /\ training' = FALSE
    /\ UNCHANGED <<cfg, params, topkTie, input, data, outcome, out, loc>>

Next == Forward \/ ForwardAgain \/ Discard \/ Train \/ Eval

Spec == Init /\ [][Next]_vars

(***************************************************************************)
(* Vocabulary of the properties.                                            *)
(***************************************************************************)
Returns == outcome = "ok"

SeqLen == Len(input["state"])

\* timesteps inside the window: min(step, L)
InWindow == IF SeqLen < cfg.step THEN SeqLen ELSE cfg.step

\* the latent vector of the k-th timestep inside the window (k = 1 is the oldest)
WindowLatent(k) == Encode(params, input["state"][SeqLen - InWindow + k])

\* the Treatment Head's logits for the k-th timestep inside the window
WindowLogits(k) == Mlp(params.logits_t, WindowLatent(k))

\* a training-mode call is well formed when the batch carries the labels
WellFormed == loc.train => HasKey(input, "t")

\* the entries of slot k (1 = leftmost) of a block made of slots of `width`
Slot(block, width, k) == [i \in 1..width |-> block[(k - 1) * width + i]]

\* the classes the mode admits as the latest-timestep treatment indicator: the
\* ground-truth label in training, the top-scoring classes of the returned logits
\* in evaluation
IndicatorChoices ==
    IF loc.train THEN {Last(input["t"])} ELSE ArgMaxSet(out.t)

\* the joint window+treatment vector fed to the heads of CEQNetwork_1/2
JointVector == out.z \o loc.onehot_t

(***************************************************************************)
(* C1.  For every variant, in both modes, and for every state sequence of   *)
(* length L >= 1 (shorter than, equal to or longer than step), a call on a  *)
(* well-formed batch returns and the returned window block out['z'] has     *)
(* width exactly fc2_units * step.                                          *)
(***************************************************************************)
WindowWidthExact ==
    (outcome # "none" /\ WellFormed) =>
        /\ Returns
        /\ Len(out.z) = cfg.fc2_units * cfg.step

\* a returned call on a sequence shorter than the window, in evaluation mode
WindowWidthWitness ==
    /\ Returns
    /\ ~loc.train
    /\ SeqLen < cfg.step
    /\ Len(out.z) = cfg.fc2_units * cfg.step

(***************************************************************************)
(* C2.  The window block is the concatenation, in original order, of the    *)
(* latent vectors of the most recent min(step, L) timesteps, left-padded    *)
(* with zeros: its first fc2_units * (step - min(step, L)) entries are 0,   *)
(* and the most recent timestep is its last fc2_units entries.              *)
(***************************************************************************)
LeftPaddingLaw ==
    Returns =>
        LET F   == cfg.fc2_units
            pad == F * (cfg.step - InWindow)
        IN  /\ Len(out.z) = F * cfg.step
            /\ \A pos \in 1..pad : out.z[pos] = 0
            /\ \A k \in 1..InWindow : \A i \in 1..F :
                   out.z[pad + (k - 1) * F + i] = WindowLatent(k)[i]
            /\ Slot(out.z, F, cfg.step) = Encode(params, Last(input["state"]))

\* a sequence longer than the window whose dropped element differs from every
\* kept one, and a non-zero latest latent
LeftPaddingWitness ==
    /\ Returns
    /\ SeqLen > cfg.step
    /\ \A k \in 1..InWindow :
           Encode(params, input["state"][1]) # WindowLatent(k)
    /\ \E i \in 1..cfg.fc2_units : WindowLatent(InWindow)[i] # 0

(***************************************************************************)
(* C3.  SimpleQNetwork override: whenever the latest-timestep treatment     *)
(* indicator of the mode (training: the label data['t'][-1]; evaluation:    *)
(* the class topk picks from the latest logits) is 1, action_values is the  *)
(* one-hot expansion of prev_action, whatever the head computed.            *)
(***************************************************************************)
OverrideLaw ==
    (Returns /\ cfg.variant = "SimpleQNetwork") =>
        LET ind == IF loc.train THEN Last(input["t"])
                   ELSE TopK1(out.t, topkTie)
        IN  /\ ind = 1 =>
                /\ Len(out.y) = cfg.action_size
                /\ \A a \in 1..cfg.action_size :
                       out.y[a] = IF a = input["prev_action"] + 1 THEN 1 ELSE 0
            /\ (~loc.train /\ ArgMaxSet(out.t) = {1}) =>
                   \A a \in 1..cfg.action_size :
                       out.y[a] = IF a = input["prev_action"] + 1 THEN 1 ELSE 0

\* training, latest label 1, prev_action 0: the result is [1, 0] although the
\* head computed something else
OverrideWitness ==
    /\ Returns
    /\ cfg.variant = "SimpleQNetwork"
    /\ loc.train
    /\ SeqLen = cfg.step
    /\ Last(input["t"]) = 1
    /\ input["prev_action"] = 0
    /\ out.y = <<1, 0>>
    /\ Mlp(params.fc, out.z) # <<1, 0>>
(***************************************************************************)
(* C4.  CEQNetwork_2 combination: action_values = t*head1 + (1-t)*head0,    *)
(* t being the latest-timestep treatment indicator of the mode; t = 0       *)
(* gives fc_t0's raw output and t = 1 gives fc_t1's raw output, both heads  *)
(* being fed the same joint window+treatment vector.                        *)
(***************************************************************************)
CombinationLaw ==
    (Returns /\ cfg.variant = "CEQNetwork_2") =>
        LET h0 == Mlp(params.fc_t0, JointVector)
            h1 == Mlp(params.fc_t1, JointVector)
            t  == IF loc.train THEN Last(input["t"]) ELSE TopK1(out.t, topkTie)
        IN  /\ Len(out.y) = cfg.action_size
            /\ \A a \in 1..cfg.action_size :
                   out.y[a] = t * h1[a] + (1 - t) * h0[a]
            /\ t = 0 => out.y = h0
            /\ t = 1 => out.y = h1

\* evaluation mode, predicted class 0, the two heads disagreeing
CombinationWitness ==
    /\ Returns
    /\ cfg.variant = "CEQNetwork_2"
    /\ ~loc.train
    /\ ArgMaxSet(out.t) = {0}
    /\ Mlp(params.fc_t0, JointVector) # Mlp(params.fc_t1, JointVector)
    /\ out.y = Mlp(params.fc_t0, JointVector)

(***************************************************************************)
(* C5.  Treatment one-hot law (CEQNetwork_1 and CEQNetwork_2, both modes):  *)
(* the treatment block has width num_treatment * step; each slot of a       *)
(* timestep inside the window holds exactly one 1 and otherwise 0; the      *)
(* all-zero slots are exactly the left padding.                             *)
(***************************************************************************)
TreatmentOneHotLaw ==
    (Returns /\ cfg.variant # "SimpleQNetwork") =>
        LET nt  == cfg.num_treatment
            blk == loc.onehot_t
            pad == cfg.step - InWindow
        IN  /\ Len(blk) = nt * cfg.step
            /\ \A i \in 1..Len(blk) : blk[i] \in {0, 1}
            /\ \A k \in 1..cfg.step :
                   SumTo(Slot(blk, nt, k), nt) = IF k <= pad THEN 0 ELSE 1

\* training mode, a sequence shorter than the window, a label 0 inside it
TreatmentOneHotWitness ==
    /\ Returns
    /\ cfg.variant = "CEQNetwork_1"
    /\ loc.train
    /\ SeqLen < cfg.step
    /\ Last(input["t"]) = 0
    /\ SumTo(Slot(loc.onehot_t, cfg.num_treatment, cfg.step), cfg.num_treatment) = 1
    /\ SumTo(Slot(loc.onehot_t, cfg.num_treatment, 1), cfg.num_treatment) = 0

DelItem(d, k) == [f \in DOMAIN d \ {k} |-> d[f]]

\* the keys a caller fills in
Supplied(d) == [f \in DOMAIN d \cap {"state", "prev_action", "t"} |-> d[f]]

(***************************************************************************)
(* C7.  Evaluation-mode independence from ground truth: an evaluation-mode  *)
(* call returns, and returns the same treatment_logits, action_values and   *)
(* window_block as the call on the same batch with the 't' key absent, so   *)
(* any two batches differing only in their labels give identical results;   *)
(* a repeated call on the same dict gives the result of the call on the     *)
(* batch as the caller first supplied it.                                   *)
(***************************************************************************)
EvalIgnoresLabels ==
    (outcome # "none" /\ ~loc.train) =>
        LET unlabelled == AbstractDQN_forward(cfg, params, topkTie, FALSE,
                                              DelItem(Supplied(input), "t"))
        IN  /\ Returns
            /\ unlabelled.outcome = "ok"
            /\ out.t = unlabelled.out.t
            /\ out.y = unlabelled.out.y
            /\ out.z = unlabelled.out.z

\* an evaluation-mode call of CEQNetwork_1 on a batch whose labels all differ
\* from the classes the Treatment Head predicts
EvalIgnoresLabelsWitness ==
    /\ Returns
    /\ ~loc.train
    /\ cfg.variant = "CEQNetwork_1"
    /\ HasKey(input, "t")
    /\ SeqLen >= cfg.step
    /\ \A k \in 1..InWindow :
           input["t"][SeqLen - InWindow + k] \notin ArgMaxSet(WindowLogits(k))

(***************************************************************************)
(* C8 as stated.  A forward call is side-effect free: after forward(data)   *)
(* the caller's batch holds exactly the fields and values it held before    *)
(* the call (none added, none overwritten).                                 *)
(***************************************************************************)
ForwardLeavesBatchUnchanged ==
    Returns => data = input

(***************************************************************************)
(* C9 as stated.  A training-mode call on a batch without 't' ends in an    *)
(* error with no action-value head applied and no output record produced,   *)
(* for each of the three classes.                                           *)
(***************************************************************************)
MissingFieldFailsFast ==
    (outcome # "none" /\ loc.train /\ ~HasKey(input, "t")) =>
        /\ outcome = "KeyError"
        /\ loc.applied = {}
        /\ out = NoOut

(***************************************************************************)
(* C10 as stated.  CEQNetwork_2's output is a convex combination of the two *)
(* heads for every num_treatment >= 2 and every label t in                  *)
(* 0..num_treatment-1: the weights t and 1-t both lie in [0, 1].            *)
(***************************************************************************)
ConvexWeights ==
    (Returns /\ cfg.variant = "CEQNetwork_2") =>
        /\ 0 <= loc.t_ind /\ loc.t_ind <= 1
        /\ 0 <= 1 - loc.t_ind /\ 1 - loc.t_ind <= 1

(***************************************************************************)
(* C10 amended.  CEQNetwork_2's output is a convex combination of the two   *)
(* heads when the latest-timestep treatment label is 0 or 1, which is every *)
(* label when num_treatment = 2: action_values = w*head1 + (1-w)*head0 with *)
(* w the label (training) or a top-scoring class (evaluation), 0 <= w <= 1. *)
(***************************************************************************)
ConvexWhenBinary ==
    (Returns /\ cfg.variant = "CEQNetwork_2") =>
        LET h0 == Mlp(params.fc_t0, JointVector)
            h1 == Mlp(params.fc_t1, JointVector)
        IN  /\ cfg.num_treatment = 2 => IndicatorChoices \subseteq {0, 1}
            /\ IndicatorChoices \subseteq {0, 1} =>
                   \E w \in IndicatorChoices :
                       /\ 0 <= w /\ w <= 1
                       /\ 0 <= 1 - w /\ 1 - w <= 1
                       /\ \A a \in 1..cfg.action_size :
                              out.y[a] = w * h1[a] + (1 - w) * h0[a]

\* training mode, latest label 1, the two heads disagreeing
ConvexWitness ==
    /\ Returns
    /\ cfg.variant = "CEQNetwork_2"
    /\ loc.train
    /\ Last(input["t"]) = 1
    /\ Mlp(params.fc_t0, JointVector) # Mlp(params.fc_t1, JointVector)
    /\ out.y = Mlp(params.fc_t1, JointVector)

====
